---------------------------- MODULE Spec2Model ----------------------------
(***************************************************************************)
(* A model of core/llm/llms/Bedrock.ts: the Bedrock adapter's credential   *)
(* file parser, its message translation and its streaming chat/complete    *)
(* generators.                                                             *)
(*                                                                         *)
(* A JavaScript string is a sequence of one-character strings, so that     *)
(* trim, split, slice, startsWith and concatenation are computed on the    *)
(* characters.  JavaScript's undefined and null are the two values below:  *)
(* their single element is longer than one character, so neither is equal  *)
(* to any string.                                                          *)
(***************************************************************************)
EXTENDS Integers, Sequences, FiniteSets, TLC

VARIABLES
    pc,               \* where the invocation (or the function under check) stands
    op,               \* "chat" | "complete" | "none"
    prompt,           \* _streamComplete's prompt
    messages,         \* _streamChat's messages
    systemMessage,    \* this.systemMessage, the adapter's configured system text
    data,             \* the text readFile returned
    credentialsFile,  \* the object _parseCredentialsFile returned
    client,           \* the credentials given to BedrockRuntimeClient
    request,          \* the object given to JSON.stringify: the wire request
    frames,           \* the frames pulled from response.body so far, in order
    yielded,          \* the ChatMessages _streamChat has yielded, in order
    out,              \* the strings _streamComplete has yielded, in order
    reads,            \* readFile calls of this invocation
    sends,            \* client.send calls of this invocation
    error,            \* the error the invocation threw, "none" if none
    body              \* response.body: "none" before the response, "absent", "open",
                      \* "ended" or "errored"

vars == <<pc, op, prompt, messages, systemMessage, data, credentialsFile,
          client, request, frames, yielded, out, reads, sends, error, body>>

Undefined == <<"undefined">>
Null == <<"null">>

(***************************************************************************)
(* Bounds of the checked inputs.                                           *)
(***************************************************************************)
MaxLines == 3     \* lines of a credential file text (SpecParse)
MaxMsgs == 2      \* messages of a translated conversation (SpecTranslate)
MaxFrames == 3    \* frames the transport delivers in one invocation (Spec)

(***************************************************************************)
(* String.prototype methods, on sequences of characters.                   *)
(***************************************************************************)
WhiteSpace == {" ", "\t", "\n", "\r"}

RECURSIVE TrimStart(_)
TrimStart(s) ==
    IF s # <<>> /\ Head(s) \in WhiteSpace THEN TrimStart(Tail(s)) ELSE s

RECURSIVE TrimEnd(_)
TrimEnd(s) ==
    IF s # <<>> /\ s[Len(s)] \in WhiteSpace
    THEN TrimEnd(SubSeq(s, 1, Len(s) - 1))
    ELSE s

\* s.trim()
Trim(s) == TrimEnd(TrimStart(s))

\* s.indexOf(c) + 1: the first position of the character c in s, 0 if none
IndexOf(s, c) ==
    IF \E i \in 1..Len(s) : s[i] = c
    THEN CHOOSE i \in 1..Len(s) : s[i] = c /\ \A j \in 1..(i - 1) : s[j] # c
    ELSE 0

\* s.includes(c)
Includes(s, c) == IndexOf(s, c) # 0

\* s.startsWith(c), s.endsWith(c)
StartsWith(s, c) == s # <<>> /\ s[1] = c
EndsWith(s, c) == s # <<>> /\ s[Len(s)] = c

\* s.slice(1, -1)
Slice1(s) == SubSeq(s, 2, Len(s) - 1)

\* s.split(c): every piece between occurrences of c; <<s>> when c is not in s
RECURSIVE Split(_, _)
Split(s, c) ==
    LET i == IndexOf(s, c)
    IN  IF i = 0
        THEN <<s>>
        ELSE <<SubSeq(s, 1, i - 1)>> \o Split(SubSeq(s, i + 1, Len(s)), c)

\* array[i] of a JavaScript array (0-based), undefined past its end
At(arr, i) == IF i + 1 \in 1..Len(arr) THEN arr[i + 1] ELSE Undefined

Range(seq) == {seq[i] : i \in 1..Len(seq)}

(***************************************************************************)
(* A JavaScript object with string keys: the keys in insertion order and   *)
(* the value of each.  Assigning to an existing key keeps its place.       *)
(***************************************************************************)
EmptyObject == [keys |-> <<>>, val |-> <<>>]

HasKey(obj, k) == k \in DOMAIN obj.val

\* obj[k], undefined when obj has no own property k
Get(obj, k) == IF HasKey(obj, k) THEN obj.val[k] ELSE Undefined

\* obj[k] = v
Put(obj, k, v) ==
    [keys |-> IF HasKey(obj, k) THEN obj.keys ELSE Append(obj.keys, k),
     val  |-> [x \in (DOMAIN obj.val) \cup {k} |-> IF x = k THEN v ELSE obj.val[x]]]

Digits == <<"0", "1", "2", "3", "4", "5", "6", "7", "8", "9">>

DigitValue(c) == (CHOOSE i \in 1..10 : Digits[i] = c) - 1

\* whether the property key k is an array index (a canonical decimal numeral)
IsArrayIndex(k) ==
    /\ k # <<>>
    /\ \A i \in 1..Len(k) : k[i] \in Range(Digits)
    /\ (Len(k) > 1 => k[1] # "0")

RECURSIVE NumericValue(_)
NumericValue(k) ==
    IF k = <<>> THEN 0
    ELSE 10 * NumericValue(SubSeq(k, 1, Len(k) - 1)) + DigitValue(k[Len(k)])

RECURSIVE SortIndices(_)
SortIndices(S) ==
    IF S = {} THEN <<>>
    ELSE LET m == CHOOSE x \in S : \A y \in S : NumericValue(x) <= NumericValue(y)
         IN  <<m>> \o SortIndices(S \ {m})

\* Object.keys(obj): the array-index keys in ascending numeric order, then the
\* other keys in insertion order (OrdinaryOwnPropertyKeys)
ObjectKeys(obj) ==
    SortIndices({k \in Range(obj.keys) : IsArrayIndex(k)})
        \o SelectSeq(obj.keys, LAMBDA k : ~IsArrayIndex(k))

(***************************************************************************)
(* _parseCredentialsFile                                                   *)
(***************************************************************************)
KeyAccessKeyId ==
    <<"a", "w", "s", "_", "a", "c", "c", "e", "s", "s", "_", "k", "e", "y", "_", "i", "d">>
KeySecretAccessKey ==
    <<"a", "w", "s", "_", "s", "e", "c", "r", "e", "t", "_",
      "a", "c", "c", "e", "s", "s", "_", "k", "e", "y">>
KeySessionToken ==
    <<"a", "w", "s", "_", "s", "e", "s", "s", "i", "o", "n", "_", "t", "o", "k", "e", "n">>

\* profiles[currentProfile].<field> = value
AssignField(profiles, currentProfile, field, value) ==
    Put(profiles, currentProfile, Put(Get(profiles, currentProfile), field, value))

\* the right-hand side of "const [key, value] = trimmedLine.split("=")"
KeyValue(trimmedLine) ==
    LET parts == Split(trimmedLine, "=")
    IN  [key |-> At(parts, 0), value |-> At(parts, 1)]

\* one iteration of the loop over the lines; st is <<currentProfile, profiles>>
ParseLine(line, st) ==
    LET trimmedLine == Trim(line)
        currentProfile == st[1]
        profiles == st[2]
    IN  IF StartsWith(trimmedLine, "[") /\ EndsWith(trimmedLine, "]")
        THEN <<Slice1(trimmedLine), Put(profiles, Slice1(trimmedLine), EmptyObject)>>
        ELSE IF currentProfile # Null /\ Includes(trimmedLine, "=")
        THEN LET kv == KeyValue(trimmedLine)
                 trimmedKey == Trim(kv.key)
                 trimmedValue == Trim(kv.value)
             IN  IF trimmedKey = KeyAccessKeyId
                 THEN <<currentProfile,
                        AssignField(profiles, currentProfile, "accessKeyId", trimmedValue)>>
                 ELSE IF trimmedKey = KeySecretAccessKey
                 THEN <<currentProfile,
                        AssignField(profiles, currentProfile, "secretAccessKey", trimmedValue)>>
                 ELSE IF trimmedKey = KeySessionToken
                 THEN <<currentProfile,
                        AssignField(profiles, currentProfile, "sessionToken", trimmedValue)>>
                 ELSE st
        ELSE st

RECURSIVE ParseLoop(_, _)
ParseLoop(lines, st) ==
    IF lines = <<>> THEN st ELSE ParseLoop(Tail(lines), ParseLine(Head(lines), st))

ParseCredentialsFile(fileContents) ==
    ParseLoop(Split(Trim(fileContents), "\n"), <<Null, EmptyObject>>)[2]

(***************************************************************************)
(* ChatMessage and MessageContent.  A content is tagged with what typeof   *)
(* and Array.isArray tell of it: a string (its text), or an array (its     *)
(* parts).  A part is {type: "text", text} or                              *)
(* {type: "imageUrl", imageUrl?: {url}}.                                   *)
(***************************************************************************)
StringContent(s) == [kind |-> "string", text |-> s, parts |-> <<>>]
ArrayContent(parts) == [kind |-> "array", text |-> <<>>, parts |-> parts]
TextPart(s) == [type |-> "text", text |-> s]
ImagePart(url) == [type |-> "imageUrl", imageUrl |-> [url |-> url]]
BareImagePart == [type |-> "imageUrl"]

\* part.imageUrl?.url.split(",")[1]
ImageData(part) ==
    IF "imageUrl" \in DOMAIN part
    THEN At(Split(part.imageUrl.url, ","), 1)
    ELSE Undefined

\* the callback of messageContent.map in _convertMessageContent
ConvertPart(part) ==
    IF part.type = "text"
    THEN part
    ELSE [type |-> "image",
          source |-> [type |-> "base64",
                      media_type |-> "image/jpeg",
                      data |-> ImageData(part)]]

\* _convertMessageContent
ConvertMessageContent(messageContent) ==
    IF messageContent.kind = "string"
    THEN messageContent
    ELSE ArrayContent([i \in 1..Len(messageContent.parts) |->
                          ConvertPart(messageContent.parts[i])])

\* _convertMessage
ConvertMessage(message) ==
    [role |-> message.role, content |-> ConvertMessageContent(message.content)]

\* a filter that keeps the system messages too
KeepEveryMessage(m) == TRUE

\* the predicate of msgs.filter in _convertMessages
KeepMessage(m) == m.role # "system"

\* _convertMessages
ConvertMessages(msgs) ==
    LET kept == SelectSeq(msgs, KeepMessage)
    IN  [i \in 1..Len(kept) |-> ConvertMessage(kept[i])]

\* the CompletionOptions of the checked calls
CompletionOptions ==
    [model |-> "claude-3-sonnet-20240229", maxTokens |-> 4096, temperature |-> 1,
     topP |-> 1, topK |-> 40, stop |-> <<>>]

\* the object _streamChat gives to JSON.stringify
RequestBody(system, msgs, options) ==
    [anthropic_version |-> "bedrock-2023-05-31",
     max_tokens |-> options.maxTokens,
     system |-> system,
     messages |-> ConvertMessages(msgs),
     temperature |-> options.temperature,
     top_p |-> options.topP,
     top_k |-> options.topK,
     stop_sequences |-> options.stop]

(***************************************************************************)
(* Credential selection and the client's credentials (_streamChat).        *)
(***************************************************************************)
Bedrock == <<"b", "e", "d", "r", "o", "c", "k">>
Default == <<"d", "e", "f", "a", "u", "l", "t">>

\* a selection that prefers the "default" profile
SelectCredentialsDefaultFirst(store) ==
    IF HasKey(store, Default) THEN Get(store, Default) ELSE Get(store, Bedrock)

\* credentialsFile.bedrock ?? credentialsFile.default
SelectCredentials(store) ==
    IF HasKey(store, Bedrock) THEN Get(store, Bedrock) ELSE Get(store, Default)

\* whether reading a property of the selected credentials throws: they are
\* undefined when the store has neither profile
CredentialsUndefined(store) == ~HasKey(store, Bedrock) /\ ~HasKey(store, Default)

\* credentials.sessionToken || ""
SessionTokenOf(credentials) ==
    IF Get(credentials, "sessionToken") \in {Undefined, <<>>}
    THEN <<>>
    ELSE Get(credentials, "sessionToken")

\* the credentials option of new BedrockRuntimeClient
ClientCredentials(credentials) ==
    [accessKeyId |-> Get(credentials, "accessKeyId"),
     secretAccessKey |-> Get(credentials, "secretAccessKey"),
     sessionToken |-> SessionTokenOf(credentials)]

(***************************************************************************)
(* Response frames.  The bytes of a frame are given by the JSON text they  *)
(* encode: a JSON value whose string characters may hold the byte "xFF",   *)
(* which is not valid UTF-8, or a text that is not JSON.  A frame may      *)
(* carry no bytes (value.chunk?.bytes is undefined).                       *)
(***************************************************************************)
JValue(type, num, chars, members) ==
    [type |-> type, num |-> num, chars |-> chars, members |-> members]
JUndefined == JValue("undefined", 0, <<>>, <<>>)
JNull == JValue("null", 0, <<>>, <<>>)
JNumber(n) == JValue("number", n, <<>>, <<>>)
JString(s) == JValue("string", 0, s, <<>>)
JObject(members) == JValue("object", 0, <<>>, members)

JsonBytes(value) == [hasBytes |-> TRUE, syntax |-> "json", value |-> value]
GarbageBytes == [hasBytes |-> TRUE, syntax |-> "garbage", value |-> JUndefined]
NoBytes == [hasBytes |-> FALSE, syntax |-> "empty", value |-> JUndefined]

ReplacementChar == "U+FFFD"

\* what a non-fatal TextDecoder makes of the characters of a string
DecodeChars(s) ==
    [i \in 1..Len(s) |-> IF s[i] = "xFF" THEN ReplacementChar ELSE s[i]]

RECURSIVE DecodeValue(_)
DecodeValue(v) ==
    IF v.type = "string" THEN JString(DecodeChars(v.chars))
    ELSE IF v.type = "object"
    THEN JObject([m \in DOMAIN v.members |-> DecodeValue(v.members[m])])
    ELSE v

\* new TextDecoder().decode(binaryChunk): never throws; no bytes give the empty
\* text, invalid bytes are replaced
TextDecode(binaryChunk) ==
    IF ~binaryChunk.hasBytes
    THEN [syntax |-> "empty", value |-> JUndefined]
    ELSE [syntax |-> binaryChunk.syntax, value |-> DecodeValue(binaryChunk.value)]

\* whether JSON.parse(textChunk) throws a SyntaxError
JsonParseThrows(textChunk) == textChunk.syntax # "json"

\* v.<name> of a value that is neither null nor undefined
Member(v, name) ==
    IF v.type = "object" /\ name \in DOMAIN v.members
    THEN v.members[name]
    ELSE JUndefined

\* v?.<name>
OptionalMember(v, name) ==
    IF v.type \in {"undefined", "null"} THEN JUndefined ELSE Member(v, name)

\* ToBoolean(v)
Truthy(v) ==
    CASE v.type \in {"undefined", "null"} -> FALSE
      [] v.type = "number" -> v.num # 0
      [] v.type = "string" -> v.chars # <<>>
      [] OTHER -> TRUE

\* a handling of the frame that catches what decoding and parsing throw
FrameChunkCatchingErrors(frame) ==
    LET textChunk == TextDecode(frame)
    IN  IF JsonParseThrows(textChunk) \/ textChunk.value.type = "null"
        THEN [throws |-> "none", chunk |-> JUndefined]
        ELSE [throws |-> "none",
              chunk |-> OptionalMember(Member(textChunk.value, "delta"), "text")]

\* lines 146-148 on one frame: the error thrown ("none" if none) and the chunk
FrameChunk(frame) ==
    LET textChunk == TextDecode(frame)
    IN  IF JsonParseThrows(textChunk)
        THEN [throws |-> "SyntaxError", chunk |-> JUndefined]
        ELSE IF textChunk.value.type = "null"
        THEN [throws |-> "TypeError", chunk |-> JUndefined]
        ELSE [throws |-> "none",
              chunk |-> OptionalMember(Member(textChunk.value, "delta"), "text")]

\* a condition that holds of every chunk but undefined, the empty text too
YieldsDefinedChunk(chunk) == chunk.type # "undefined"

\* the condition of "if (chunk)"
YieldsChunk(chunk) == Truthy(chunk)

\* the message of line 150; the chunks of the checked frames are strings
AssistantMessage(chunk) == [role |-> "assistant", content |-> StringContent(chunk.chars)]

\* stripImages of core/llm/countTokens: the text of a content
RECURSIVE JoinText(_)
JoinText(parts) ==
    IF parts = <<>> THEN <<>>
    ELSE IF Len(parts) = 1 THEN Head(parts).text
    ELSE Head(parts).text \o <<"\n">> \o JoinText(Tail(parts))

TextParts(parts) == SelectSeq(parts, LAMBDA part : part.type = "text")

StripImages(content) ==
    IF content.kind = "array" THEN JoinText(TextParts(content.parts)) ELSE content.text

\* a prompt wrapped as a system message
PromptMessagesAsSystem(p) == <<[role |-> "system", content |-> StringContent(p)]>>

\* line 100: the one message _streamComplete makes of its prompt
PromptMessages(p) == <<[role |-> "user", content |-> StringContent(p)]>>

(***************************************************************************)
(* The checked inputs.                                                     *)
(***************************************************************************)
SectionLine(name) == <<"[">> \o name \o <<"]">>
AssignLine(key, value) == key \o <<"=">> \o value

RECURSIVE JoinLines(_)
JoinLines(ls) ==
    IF ls = <<>> THEN <<>>
    ELSE IF Len(ls) = 1 THEN Head(ls)
    ELSE Head(ls) \o <<"\n">> \o JoinLines(Tail(ls))

SeqsUpTo(S, n) == UNION {[1..k -> S] : k \in 0..n}

\* the lines of the credential file texts of SpecParse
FileLines ==
    { SectionLine(Bedrock), SectionLine(Default), SectionLine(<<"d", "e", "v">>),
      AssignLine(KeyAccessKeyId, <<"A", "K">>),
      AssignLine(KeyAccessKeyId, <<"A", "2">>),
      <<" ">> \o KeySecretAccessKey \o <<" ", "=", " ", "S", "K", " ">>,
      AssignLine(KeySessionToken, <<"T", "=", "=">>),
      <<"r", "e", "g", "i", "o", "n", "=", "u", "s">>,
      <<"j", "u", "n", "k">>,
      <<>> }

Texts == {JoinLines(ls) : ls \in SeqsUpTo(FileLines, MaxLines)}

IdAK == AssignLine(KeyAccessKeyId, <<"A", "K">>)
IdA2 == AssignLine(KeyAccessKeyId, <<"A", "2">>)
SecretSK == AssignLine(KeySecretAccessKey, <<"S", "K">>)
SecretS2 == AssignLine(KeySecretAccessKey, <<"S", "2">>)
TokenT == AssignLine(KeySessionToken, <<"T">>)

\* the credential files readFile may return in Spec
CredentialFiles ==
    { JoinLines(<<SectionLine(Default), IdAK, SecretSK,
                  SectionLine(Bedrock), IdA2, SecretS2, TokenT>>),
      JoinLines(<<SectionLine(Bedrock), IdA2, SecretS2,
                  SectionLine(Default), IdAK, SecretSK, TokenT>>),
      JoinLines(<<SectionLine(Bedrock), IdA2, SecretS2>>),
      JoinLines(<<SectionLine(Default), IdAK, SecretSK, TokenT>>),
      JoinLines(<<SectionLine(Default), IdAK>>),
      JoinLines(<<SectionLine(Bedrock), SectionLine(Default), IdAK, SecretSK>>),
      JoinLines(<<SectionLine(<<"1">>), IdAK, SecretSK>>),
      <<>> }

DataUrlPrefix ==
    <<"d", "a", "t", "a", ":", "i", "m", "a", "g", "e", "/", "p", "n", "g", ";",
      "b", "a", "s", "e", "6", "4">>

ImageUrls ==
    { DataUrlPrefix \o <<",", "Q", "U", "I", "=">>,
      DataUrlPrefix \o <<",", "Q", "U", ",", "I", "=">>,
      <<"h", "t", "t", "p", ":", "/", "/", "x">> }

Contents ==
    { StringContent(<<"H", "i">>),
      ArrayContent(<<TextPart(<<"H", "i">>)>>),
      ArrayContent(<<BareImagePart, TextPart(<<"H", "i">>)>>) }
    \cup {ArrayContent(<<TextPart(<<"H", "i">>), ImagePart(u)>>) : u \in ImageUrls}

Roles == {"system", "user", "assistant"}

ChatMessages == {[role |-> r, content |-> c] : r \in Roles, c \in Contents}

\* the conversations of SpecTranslate
Conversations == SeqsUpTo(ChatMessages, MaxMsgs)

\* the conversations and prompts of the invocations of Spec
ChatInputs ==
    { <<[role |-> "user", content |-> StringContent(<<"H", "i">>)]>>,
      <<[role |-> "system", content |-> StringContent(<<"B", "e">>)],
        [role |-> "user",
         content |-> ArrayContent(<<TextPart(<<"H", "i">>),
                                    ImagePart(DataUrlPrefix \o <<",", "Q", "U", "I", "=">>)>>)]>> }

Prompts == {<<"H", "i">>, <<"Y", "o">>}

SystemMessages == {Undefined, <<"S", "y", "s">>}

DeltaFrame(text) == JsonBytes(JObject([delta |-> JObject([text |-> JString(text)])]))

\* the frames the transport may deliver
Frames ==
    { DeltaFrame(<<"H", "e", "l">>),
      DeltaFrame(<<"l", "o">>),
      DeltaFrame(<<>>),
      DeltaFrame(<<"xFF">>),
      JsonBytes(JObject([other |-> JNumber(1)])),
      JsonBytes(JNull),
      GarbageBytes,
      NoBytes }

(***************************************************************************)
(* Spec: the invocations of _streamChat and _streamComplete, one at a      *)
(* time, each driven by its consumer's pulls.                              *)
(***************************************************************************)
Finished == {"done", "failed", "abandoned"}

Init ==
    /\ pc = "idle"
    /\ op = "none"
    /\ prompt = Undefined
    /\ messages = Undefined
    /\ systemMessage \in SystemMessages
    /\ data = Undefined
    /\ credentialsFile = Undefined
    /\ client = Undefined
    /\ request = Undefined
    /\ frames = <<>>
    /\ yielded = <<>>
    /\ out = <<>>
    /\ reads = 0
    /\ sends = 0
    /\ error = "none"
    /\ body = "none"

\* a new invocation starts with nothing of the previous one
Fresh ==
    /\ data' = Undefined
    /\ credentialsFile' = Undefined
    /\ client' = Undefined
    /\ request' = Undefined
    /\ frames' = <<>>
    /\ yielded' = <<>>
    /\ out' = <<>>
    /\ reads' = 0
    /\ sends' = 0
    /\ error' = "none"
    /\ body' = "none"
    /\ UNCHANGED systemMessage

\* the consumer calls _streamChat(msgs, options) and pulls
CallChat(msgs) ==
    /\ pc \in {"idle"} \cup Finished
    /\ pc' = "chat"
    /\ op' = "chat"
    /\ prompt' = Undefined
    /\ messages' = msgs
    /\ Fresh

\* the consumer calls _streamComplete(p, options) and pulls
CallComplete(p) ==
    /\ pc \in {"idle"} \cup Finished
    /\ pc' = "complete"
    /\ op' = "complete"
    /\ prompt' = p
    /\ messages' = Undefined
    /\ Fresh

\* _streamComplete, lines 100-101: the message, and the call of _streamChat
StreamCompleteBegin ==
    /\ pc = "complete"
    /\ messages' = PromptMessages(prompt)
    /\ pc' = "chat"
    /\ UNCHANGED <<op, prompt, systemMessage, data, credentialsFile, client, request,
                   frames, yielded, out, reads, sends, error, body>>

\* _streamChat, line 110: readFile is called and awaited
ReadFile ==
    /\ pc = "chat"
    /\ reads' = reads + 1
    /\ pc' = "reading"
    /\ UNCHANGED <<op, prompt, messages, systemMessage, data, credentialsFile, client,
                   request, frames, yielded, out, sends, error, body>>

\* readFile rejects: the file cannot be read
ReadFileRejected ==
    /\ pc = "reading"
    /\ pc' = "failed"
    /\ error' = "ENOENT"
    /\ UNCHANGED <<op, prompt, messages, systemMessage, data, credentialsFile, client,
                   request, frames, yielded, out, reads, sends, body>>

\* readFile resolves with text; lines 114-143 run to the await of client.send
ReadFileResolved(text) ==
    /\ pc = "reading"
    /\ data' = text
    /\ credentialsFile' = ParseCredentialsFile(text)
    /\ IF CredentialsUndefined(credentialsFile')
       THEN /\ pc' = "failed"
            /\ error' = "TypeError"
            /\ UNCHANGED <<client, request, sends>>
       ELSE /\ client' = ClientCredentials(SelectCredentials(credentialsFile'))
            /\ request' = RequestBody(systemMessage, messages, CompletionOptions)
            /\ sends' = sends + 1
            /\ pc' = "sending"
            /\ error' = error
    /\ UNCHANGED <<op, prompt, messages, systemMessage, frames, yielded, out, reads, body>>

\* a rejected client.send that is sent again
SendRejectedAndRetried ==
    /\ pc = "sending"
    /\ sends' = sends + 1
    /\ UNCHANGED <<pc, op, prompt, messages, systemMessage, data, credentialsFile, client,
                   request, frames, yielded, out, reads, error, body>>

\* client.send rejects
SendRejected ==
    /\ pc = "sending"
    /\ pc' = "failed"
    /\ error' = "TransportError"
    /\ UNCHANGED <<op, prompt, messages, systemMessage, data, credentialsFile, client,
                   request, frames, yielded, out, reads, sends, body>>

\* client.send resolves; line 144
SendResolved(hasBody) ==
    /\ pc = "sending"
    /\ body' = IF hasBody THEN "open" ELSE "absent"
    /\ pc' = IF hasBody THEN "streaming" ELSE "done"
    /\ UNCHANGED <<op, prompt, messages, systemMessage, data, credentialsFile, client,
                   request, frames, yielded, out, reads, sends, error>>

\* line 145: the next frame arrives
PullFrame(frame) ==
    /\ pc = "streaming"
    /\ Len(frames) < MaxFrames
    /\ frames' = Append(frames, frame)
    /\ pc' = "frame"
    /\ UNCHANGED <<op, prompt, messages, systemMessage, data, credentialsFile, client,
                   request, yielded, out, reads, sends, error, body>>

\* line 145: the transport stream ends
StreamEnded ==
    /\ pc = "streaming"
    /\ body' = "ended"
    /\ pc' = "done"
    /\ UNCHANGED <<op, prompt, messages, systemMessage, data, credentialsFile, client,
                   request, frames, yielded, out, reads, sends, error>>

\* line 145: the transport stream fails
StreamRejected ==
    /\ pc = "streaming"
    /\ body' = "errored"
    /\ pc' = "failed"
    /\ error' = "TransportError"
    /\ UNCHANGED <<op, prompt, messages, systemMessage, data, credentialsFile, client,
                   request, frames, yielded, out, reads, sends>>

\* lines 146-151 on the frame just pulled
HandleFrame ==
    /\ pc = "frame"
    /\ LET r == FrameChunk(frames[Len(frames)])
       IN  IF r.throws # "none"
           THEN /\ pc' = "failed"
                /\ error' = r.throws
                /\ UNCHANGED yielded
           ELSE IF YieldsChunk(r.chunk)
           THEN /\ yielded' = Append(yielded, AssistantMessage(r.chunk))
                /\ pc' = IF op = "complete" THEN "update" ELSE "suspended"
                /\ UNCHANGED error
           ELSE /\ pc' = "streaming"
                /\ UNCHANGED <<yielded, error>>
    /\ UNCHANGED <<op, prompt, messages, systemMessage, data, credentialsFile, client,
                   request, frames, out, reads, sends, body>>

\* _streamComplete, line 102, on the message _streamChat just yielded
StreamCompleteYield ==
    /\ pc = "update"
    /\ out' = Append(out, StripImages(yielded[Len(yielded)].content))
    /\ pc' = "suspended"
    /\ UNCHANGED <<op, prompt, messages, systemMessage, data, credentialsFile, client,
                   request, frames, yielded, reads, sends, error, body>>

\* the consumer pulls again: the generator resumes after its yield
Resume ==
    /\ pc = "suspended"
    /\ pc' = "streaming"
    /\ UNCHANGED <<op, prompt, messages, systemMessage, data, credentialsFile, client,
                   request, frames, yielded, out, reads, sends, error, body>>

\* the consumer stops pulling: the generator is returned at its yield
Abandon ==
    /\ pc = "suspended"
    /\ pc' = "abandoned"
    /\ UNCHANGED <<op, prompt, messages, systemMessage, data, credentialsFile, client,
                   request, frames, yielded, out, reads, sends, error, body>>

Next ==
    \/ \E msgs \in ChatInputs : CallChat(msgs)
    \/ \E p \in Prompts : CallComplete(p)
    \/ StreamCompleteBegin
    \/ ReadFile
    \/ ReadFileRejected
    \/ \E text \in CredentialFiles : ReadFileResolved(text)
    \/ SendRejected
    \/ \E hasBody \in BOOLEAN : SendResolved(hasBody)
    \/ \E frame \in Frames : PullFrame(frame)
    \/ StreamEnded
    \/ StreamRejected
    \/ HandleFrame
    \/ StreamCompleteYield
    \/ Resume
    \/ Abandon

Spec == Init /\ [][Next]_vars

(***************************************************************************)
(* SpecParse: _parseCredentialsFile applied to every text of Texts.        *)
(***************************************************************************)
InitParse ==
    /\ pc = "parse"
    /\ op = "none"
    /\ prompt = Undefined
    /\ messages = Undefined
    /\ systemMessage = Undefined
    /\ data \in Texts
    /\ credentialsFile = Undefined
    /\ client = Undefined
    /\ request = Undefined
    /\ frames = <<>>
    /\ yielded = <<>>
    /\ out = <<>>
    /\ reads = 0
    /\ sends = 0
    /\ error = "none"
    /\ body = "none"

ParseCredentials ==
    /\ pc = "parse"
    /\ credentialsFile' = ParseCredentialsFile(data)
    /\ pc' = "parsed"
    /\ UNCHANGED <<op, prompt, messages, systemMessage, data, client, request, frames,
                   yielded, out, reads, sends, error, body>>

NextParse == ParseCredentials

SpecParse == InitParse /\ [][NextParse]_vars

(***************************************************************************)
(* SpecTranslate: the wire request built of every conversation of          *)
(* Conversations.                                                          *)
(***************************************************************************)
InitTranslate ==
    /\ pc = "translate"
    /\ op = "none"
    /\ prompt = Undefined
    /\ messages \in Conversations
    /\ systemMessage \in SystemMessages
    /\ data = Undefined
    /\ credentialsFile = Undefined
    /\ client = Undefined
    /\ request = Undefined
    /\ frames = <<>>
    /\ yielded = <<>>
    /\ out = <<>>
    /\ reads = 0
    /\ sends = 0
    /\ error = "none"
    /\ body = "none"

BuildRequest ==
    /\ pc = "translate"
    /\ request' = RequestBody(systemMessage, messages, CompletionOptions)
    /\ pc' = "translated"
    /\ UNCHANGED <<op, prompt, messages, systemMessage, data, credentialsFile, client,
                   frames, yielded, out, reads, sends, error, body>>

NextTranslate == BuildRequest

SpecTranslate == InitTranslate /\ [][NextTranslate]_vars

(***************************************************************************)
(* What the properties below say of a credential file text, read off the   *)
(* text line by line.                                                      *)
(***************************************************************************)
LinesOf(text) == Split(text, "\n")

IsSectionLine(line) == StartsWith(Trim(line), "[") /\ EndsWith(Trim(line), "]")

SectionNameOf(line) == Slice1(Trim(line))

IsAssignLine(line) == ~IsSectionLine(line) /\ Includes(line, "=")

\* the key of an assignment line, and all that follows its first "="
AssignedKey(line) == Trim(SubSeq(line, 1, IndexOf(line, "=") - 1))
AssignedValue(line) == Trim(SubSeq(line, IndexOf(line, "=") + 1, Len(line)))

\* the bracketed section names, each once, in order of first appearance
RECURSIVE FirstAppearances(_, _)
FirstAppearances(lines, seen) ==
    IF lines = <<>> THEN <<>>
    ELSE IF IsSectionLine(Head(lines)) /\ SectionNameOf(Head(lines)) \notin seen
    THEN <<SectionNameOf(Head(lines))>>
             \o FirstAppearances(Tail(lines), seen \cup {SectionNameOf(Head(lines))})
    ELSE FirstAppearances(Tail(lines), seen)

SectionNames(lines) == FirstAppearances(lines, {})

\* the lines assigning key under a section named name
AssignmentsTo(lines, name, key) ==
    { i \in 1..Len(lines) :
        /\ IsAssignLine(lines[i])
        /\ AssignedKey(lines[i]) = key
        /\ \E j \in 1..(i - 1) :
             /\ IsSectionLine(lines[j])
             /\ SectionNameOf(lines[j]) = name
             /\ \A k \in (j + 1)..(i - 1) : ~IsSectionLine(lines[k]) }

\* the last assignment to key under the profile name, undefined if there is none
LastAssignment(lines, name, key) ==
    LET is == AssignmentsTo(lines, name, key)
    IN  IF is = {} THEN Undefined
        ELSE AssignedValue(lines[CHOOSE i \in is : \A j \in is : j <= i])

RecognizedKeys ==
    { <<KeyAccessKeyId, "accessKeyId">>,
      <<KeySecretAccessKey, "secretAccessKey">>,
      <<KeySessionToken, "sessionToken">> }

\* C3: the parsed mapping's keys are exactly the bracketed section names, in
\* order of first appearance, and each recognized field of each profile is the
\* last assignment to its key under that profile name in the text (a section
\* name may occur more than once); all other lines contribute nothing.
C3_ParsedStoreIsLastAssignments ==
    pc = "parsed" =>
        LET lines == LinesOf(data)
        IN  /\ ObjectKeys(credentialsFile) = SectionNames(lines)
            /\ \A name \in Range(SectionNames(lines)) : \A kf \in RecognizedKeys :
                   Get(Get(credentialsFile, name), kf[2]) = LastAssignment(lines, name, kf[1])

FieldOrder == <<KeyAccessKeyId, KeySecretAccessKey, KeySessionToken>>
FieldNames == <<"accessKeyId", "secretAccessKey", "sessionToken">>

\* a profile mapping written as store text: each profile's section line, then
\* one key=value line per field it has
SerializeProfile(name, profile) ==
    <<SectionLine(name)>>
        \o [i \in 1..Len(profile.keys) |->
               AssignLine(FieldOrder[CHOOSE n \in 1..3 : FieldNames[n] = profile.keys[i]],
                          Get(profile, profile.keys[i]))]

RECURSIVE SerializeLines(_, _)
SerializeLines(store, names) ==
    IF names = <<>> THEN <<>>
    ELSE SerializeProfile(Head(names), Get(store, Head(names)))
             \o SerializeLines(store, Tail(names))

Serialize(store) == JoinLines(SerializeLines(store, store.keys))

\* the known profile mappings of the round trip
KnownStores ==
    { Put(EmptyObject, Bedrock, Put(EmptyObject, "accessKeyId", <<"A", "K">>)),
      Put(EmptyObject, Default,
          Put(Put(EmptyObject, "accessKeyId", <<"A", "2">>), "sessionToken", <<"T", "=", "=">>)),
      Put(Put(EmptyObject, Default, EmptyObject),
          Bedrock, Put(EmptyObject, "accessKeyId", <<"A", "K">>)) }

\* C4: a key=value line is split on its first "=" only, so every stored value
\* is the whole trimmed remainder of an assignment line of the text, and the
\* text serialized of a known profile mapping parses back to that mapping.
C4_SplitOnFirstEqualsRoundTrip ==
    pc = "parsed" =>
        /\ \A name \in Range(credentialsFile.keys) : \A kf \in RecognizedKeys :
               HasKey(Get(credentialsFile, name), kf[2]) =>
                   \E i \in 1..Len(LinesOf(data)) :
                       /\ IsAssignLine(LinesOf(data)[i])
                       /\ AssignedKey(LinesOf(data)[i]) = kf[1]
                       /\ Get(Get(credentialsFile, name), kf[2]) = AssignedValue(LinesOf(data)[i])
        /\ \A store \in KnownStores : data = Serialize(store) => credentialsFile = store

(***************************************************************************)
(* Message translation.                                                    *)
(***************************************************************************)
NonSystem(msgs) == {i \in 1..Len(msgs) : msgs[i].role # "system"}

\* the place in msgs of its j-th message that is not of the system role
NonSystemAt(msgs, j) ==
    CHOOSE i \in NonSystem(msgs) : Cardinality({k \in NonSystem(msgs) : k <= i}) = j

\* C5: the wire request's messages are exactly the non-system messages, in
\* their order, each with its role, its plain text verbatim and the parts of a
\* multi-part content in the same number and order; none is of the system
\* role, and the request's system field is the adapter's configured text.
C5_TranslationKeepsNonSystemInOrder ==
    pc = "translated" =>
        /\ Len(request.messages) = Cardinality(NonSystem(messages))
        /\ \A j \in 1..Len(request.messages) :
               LET m == messages[NonSystemAt(messages, j)]
                   w == request.messages[j]
               IN  /\ w.role = m.role
                   /\ w.role # "system"
                   /\ w.content.kind = m.content.kind
                   /\ w.content.text = m.content.text
                   /\ Len(w.content.parts) = Len(m.content.parts)
                   /\ \A k \in 1..Len(m.content.parts) :
                          IF m.content.parts[k].type = "text"
                          THEN w.content.parts[k] = m.content.parts[k]
                          ELSE w.content.parts[k].type = "image"
        /\ request.system = systemMessage

\* a conversation with a system message and a multi-part message is translated
C5_Witness ==
    /\ pc = "translated"
    /\ Len(messages) = 2
    /\ messages[1].role = "system"
    /\ messages[2].role = "user"
    /\ messages[2].content.kind = "array"
    /\ Len(messages[2].content.parts) = 2
    /\ Len(request.messages) = 1
    /\ systemMessage = <<"S", "y", "s">>

IsDataUrl(url) ==
    /\ Len(url) >= 5
    /\ SubSeq(url, 1, 5) = <<"d", "a", "t", "a", ":">>
    /\ Includes(url, ",")

\* C6: every image part whose source is a data URL is translated to an embedded
\* base64 JPEG image whose payload is all of the source after its first comma.
C6_ImagePayloadIsAllAfterFirstComma ==
    pc = "translated" =>
        \A j \in 1..Len(request.messages) :
            LET m == messages[NonSystemAt(messages, j)]
            IN  \A k \in 1..Len(m.content.parts) :
                    LET part == m.content.parts[k]
                    IN  (/\ part.type = "imageUrl"
                         /\ "imageUrl" \in DOMAIN part
                         /\ IsDataUrl(part.imageUrl.url))
                        => request.messages[j].content.parts[k] =
                               [type |-> "image",
                                source |->
                                    [type |-> "base64",
                                     media_type |-> "image/jpeg",
                                     data |-> SubSeq(part.imageUrl.url,
                                                     IndexOf(part.imageUrl.url, ",") + 1,
                                                     Len(part.imageUrl.url))]]

(***************************************************************************)
(* Credential selection.                                                   *)
(***************************************************************************)
\* the client was given the fields of profile, an absent session token as ""
UsesProfile(profile) ==
    /\ client.accessKeyId =
           IF "accessKeyId" \in DOMAIN profile.val THEN profile.val.accessKeyId ELSE Undefined
    /\ client.secretAccessKey =
           IF "secretAccessKey" \in DOMAIN profile.val
           THEN profile.val.secretAccessKey
           ELSE Undefined
    /\ client.sessionToken =
           IF "sessionToken" \in DOMAIN profile.val THEN profile.val.sessionToken ELSE <<>>

\* C1: the transport client is given the fields of the "bedrock" profile when
\* the parsed store has one (also when it has a "default" one), of the
\* "default" profile when it has no "bedrock" one, and the empty string for a
\* session token the selected profile lacks.
C1_BedrockThenDefault ==
    sends >= 1 =>
        /\ HasKey(credentialsFile, Bedrock) => UsesProfile(credentialsFile.val[Bedrock])
        /\ (~HasKey(credentialsFile, Bedrock) /\ HasKey(credentialsFile, Default))
               => UsesProfile(credentialsFile.val[Default])

\* both profiles exist, only "default" has a session token, "bedrock" is used
C1_Witness ==
    /\ sends = 1
    /\ HasKey(credentialsFile, Bedrock)
    /\ HasKey(credentialsFile, Default)
    /\ HasKey(credentialsFile.val[Default], "sessionToken")
    /\ ~HasKey(credentialsFile.val[Bedrock], "sessionToken")
    /\ client = [accessKeyId |-> <<"A", "2">>, secretAccessKey |-> <<"S", "2">>,
                 sessionToken |-> <<>>]

\* C2: with neither a "bedrock" nor a "default" profile in the parsed store the
\* invocation fails with a MissingCredentials error of its own, before any
\* network call and without yielding.
C2_MissingCredentialsError ==
    (data # Undefined /\ CredentialsUndefined(credentialsFile)) =>
        /\ pc = "failed"
        /\ error = "MissingCredentials"
        /\ sends = 0
        /\ yielded = <<>>
        /\ out = <<>>

(***************************************************************************)
(* The response stream.                                                    *)
(***************************************************************************)
\* the frames pulled and handled: all but one pulled and not yet handled
HandledFrames == IF pc = "frame" THEN SubSeq(frames, 1, Len(frames) - 1) ELSE frames

\* a frame whose bytes are the text of a JSON object
WellFormedFrame(frame) ==
    frame.hasBytes /\ frame.syntax = "json" /\ frame.value.type = "object"

\* the delta.text field of a frame's JSON, undefined if it has none
DeltaTextOf(frame) ==
    LET v == frame.value
    IN  IF /\ frame.hasBytes
           /\ frame.syntax = "json"
           /\ v.type = "object"
           /\ "delta" \in DOMAIN v.members
           /\ v.members.delta.type = "object"
           /\ "text" \in DOMAIN v.members.delta.members
        THEN v.members.delta.members.text
        ELSE JUndefined

HasDeltaText(frame) == DeltaTextOf(frame).type # "undefined"

HasNonEmptyDeltaText(frame) ==
    DeltaTextOf(frame).type = "string" /\ DeltaTextOf(frame).chars # <<>>

\* one assistant message per frame of fs that Has picks, with its decoded text
DeltaMessages(fs, Has(_)) ==
    LET picked == SelectSeq(fs, Has)
    IN  [i \in 1..Len(picked) |->
            [role |-> "assistant",
             content |-> StringContent(DecodeChars(DeltaTextOf(picked[i]).chars))]]

AllWellFormed == \A i \in 1..Len(frames) : WellFormedFrame(frames[i])

\* C7 as claimed: over well-formed frames, one assistant message for each
\* handled frame that has a delta.text field, whatever its value, and none for
\* the others, in frame order, each yielded before the next frame is pulled.
C7_OneMessagePerDeltaText ==
    AllWellFormed => yielded = DeltaMessages(HandledFrames, HasDeltaText)

\* C7 as amended: one assistant message for each handled frame whose
\* delta.text is a non-empty string, none for a frame without the field or with
\* the empty string, in frame order, each yielded before the next frame is pulled.
C7_OneMessagePerNonEmptyDeltaText ==
    AllWellFormed => yielded = DeltaMessages(HandledFrames, HasNonEmptyDeltaText)

\* the frames {"delta":{"text":"Hel"}}, {"delta":{"text":"lo"}}, {"other":1}
\* have been handled and gave "Hel", "lo"
C7_Witness ==
    /\ pc = "streaming"
    /\ frames = <<DeltaFrame(<<"H", "e", "l">>), DeltaFrame(<<"l", "o">>),
                  JsonBytes(JObject([other |-> JNumber(1)]))>>
    /\ yielded = <<[role |-> "assistant", content |-> StringContent(<<"H", "e", "l">>)],
                   [role |-> "assistant", content |-> StringContent(<<"l", "o">>)]>>

(***************************************************************************)
(* Reads and network calls of one invocation.                              *)
(***************************************************************************)
\* the file was read and its store holds a profile the selection finds
CredentialsFound == data # Undefined /\ ~CredentialsUndefined(credentialsFile)

\* never more than one read or one call, the read complete before the call,
\* nothing read or sent when an invocation starts, and the store in use, up to
\* the response, the one parsed of the text this invocation read
ReadThenSendOnce ==
    /\ reads <= 1
    /\ sends <= 1
    /\ sends = 1 => (reads = 1 /\ data # Undefined)
    /\ pc \in {"chat", "complete"} => (reads = 0 /\ sends = 0 /\ data = Undefined)
    /\ (data # Undefined /\ body = "none") => credentialsFile = ParseCredentialsFile(data)

\* C8 as claimed: every invocation, whatever its outcome, has made exactly one
\* credential-file read and exactly one network call, the read first, with
\* nothing cached and nothing repeated.
C8_OneReadOneSend ==
    /\ ReadThenSendOnce
    /\ pc \in Finished => (reads = 1 /\ sends = 1)

\* C8 as amended: every invocation makes exactly one credential-file read and
\* at most one network call: exactly one, after the read, when the read
\* succeeds and the store has a "bedrock" or "default" profile, and none
\* otherwise; nothing is cached and nothing repeated.
C8_OneReadAtMostOneSend ==
    /\ ReadThenSendOnce
    /\ pc \in Finished => (reads = 1 /\ (sends = 1 <=> CredentialsFound))

\* an invocation ended after its read, its call and two frames
C8_Witness ==
    /\ pc = "done"
    /\ body = "ended"
    /\ reads = 1
    /\ sends = 1
    /\ Len(frames) = 2

(***************************************************************************)
(* _streamComplete over _streamChat.                                       *)
(***************************************************************************)
RECURSIVE Concat(_)
Concat(strings) ==
    IF strings = <<>> THEN <<>> ELSE Head(strings) \o Concat(Tail(strings))

\* the messages of _streamChat that _streamComplete has passed on
PassedOn == IF pc = "update" THEN SubSeq(yielded, 1, Len(yielded) - 1) ELSE yielded

\* C9: complete gives chat exactly one user-role message whose content is the
\* prompt, and yields one plain-text string per message chat yields, in order,
\* so that its output concatenates to the concatenation of the chat deltas.
C9_CompleteIsChatAsText ==
    (op = "complete" /\ pc # "complete") =>
        /\ messages = <<[role |-> "user", content |-> StringContent(prompt)]>>
        /\ sends = 1 => request.messages = messages
        /\ Len(out) = Len(PassedOn)
        /\ \A i \in 1..Len(out) :
               /\ PassedOn[i].content.kind = "string"
               /\ out[i] = PassedOn[i].content.text
        /\ Concat(out) = Concat([i \in 1..Len(PassedOn) |-> PassedOn[i].content.text])

\* complete("Hi") over the deltas "Hel", "lo" has yielded "Hel", "lo": "Hello"
C9_Witness ==
    /\ op = "complete"
    /\ prompt = <<"H", "i">>
    /\ pc = "done"
    /\ Len(yielded) = 2
    /\ out = <<<<"H", "e", "l">>, <<"l", "o">>>>
    /\ Concat(out) = <<"H", "e", "l", "l", "o">>

(***************************************************************************)
(* Frames that fail the call.                                              *)
(***************************************************************************)
RECURSIVE HasInvalidByte(_)
HasInvalidByte(v) ==
    \/ v.type = "string" /\ "xFF" \in Range(v.chars)
    \/ v.type = "object" /\ \E m \in DOMAIN v.members : HasInvalidByte(v.members[m])

\* the frame has no bytes, or its decoded text is not JSON, or is the JSON null,
\* of which no field can be read
FailsParseOrIsNull(frame) ==
    \/ ~frame.hasBytes
    \/ frame.syntax # "json"
    \/ frame.value.type = "null"

\* the frame's bytes are not valid UTF-8, or the frame fails as above
FailsDecodeOrParse(frame) ==
    \/ FailsParseOrIsNull(frame)
    \/ HasInvalidByte(frame.value)

\* the call fails at each frame Fails picks, with the deltas of the frames
\* before it yielded and nothing after, no further frame pulled and no second
\* call; with no such frame the call ends only as the transport stream does
FailFast(Fails(_)) ==
    /\ \A i \in 1..Len(HandledFrames) :
           Fails(frames[i]) =>
               /\ i = Len(frames)
               /\ pc = "failed"
               /\ body = "open"
               /\ sends = 1
               /\ yielded = DeltaMessages(SubSeq(frames, 1, i - 1), HasNonEmptyDeltaText)
               /\ Len(out) <= Len(yielded)
    /\ (\A i \in 1..Len(HandledFrames) : ~Fails(frames[i])) =>
           /\ yielded = DeltaMessages(HandledFrames, HasNonEmptyDeltaText)
           /\ body = "open" => pc \notin {"done", "failed"}
           /\ (pc = "done" /\ frames # <<>>) => body = "ended"

\* C10 as claimed: a frame whose bytes fail to decode (are not valid UTF-8) or
\* to parse as JSON (to a value a field can be read of), or that has no bytes,
\* fails the call at that frame, the earlier deltas yielded and nothing later;
\* with no such frame the yielded sequence ends exactly when the transport
\* stream ends.
C10_FailsAtUndecodableFrame == FailFast(FailsDecodeOrParse)

\* C10 as amended: a frame that has no bytes, or whose decoded text does not
\* parse as JSON or parses to null, fails the call at that frame, the earlier
\* deltas yielded and nothing later; bytes that are not valid UTF-8 do not fail
\* the decoding (each is replaced by U+FFFD); with no failing frame the yielded
\* sequence ends exactly when the transport stream ends.
C10_FailsAtUnparsableFrame == FailFast(FailsParseOrIsNull)

\* a text that is not JSON arrived after two deltas: the call failed there
C10_Witness ==
    /\ pc = "failed"
    /\ error = "SyntaxError"
    /\ frames = <<DeltaFrame(<<"H", "e", "l">>), DeltaFrame(<<"l", "o">>), GarbageBytes>>
    /\ Len(yielded) = 2

=============================================================================
